---- MODULE Spec2Model ----
(***************************************************************************)
(* A model of the psi spectral interpolator's weighting policy            *)
(* (CombinedInterpolator in demo/loo_combined.py), of the helpers of       *)
(* psi/utils.py and of the leave-one-out drivers.                          *)
(*                                                                         *)
(* Floating point numbers are modelled as exact rationals extended with    *)
(* NaN and the two infinities; rounding, overflow and signed zeros are not *)
(* modelled.                                                               *)
(***************************************************************************)
EXTENDS Integers, Sequences, FiniteSets, TLC

\* ------------------------------------------------------------------ bounds
\* Number of rows (stars) of the library.
NRows == 3
\* Number of wavelength channels of the library.
NWave == 2

\* Row and wavelength indices count from 0, as the arrays of the program do.
Rows == 0..(NRows - 1)
Waves == 0..(NWave - 1)

\* ------------------------------------------------- extended rational numbers
Abs(x) == IF x < 0 THEN -x ELSE x

RECURSIVE Gcd(_, _)
Gcd(a, b) == IF b = 0 THEN a ELSE Gcd(b, a % b)

\* The finite number n/d (d # 0), in lowest terms with a positive denominator.
Fin(n, d) ==
    LET g == Gcd(Abs(n), Abs(d))
        s == IF d < 0 THEN -1 ELSE 1
    IN  [k |-> "fin", n |-> (s * n) \div g, d |-> (s * d) \div g]

NaN == [k |-> "nan", n |-> 0, d |-> 1]
PInf == [k |-> "inf", n |-> 1, d |-> 1]
NInf == [k |-> "inf", n |-> -1, d |-> 1]
Zero == Fin(0, 1)
One == Fin(1, 1)

\* np.isfinite, np.isnan
IsFinite(a) == a.k = "fin"
IsNaN(a) == a.k = "nan"

\* The sign of a non-NaN number: -1, 0 or 1.
Sign(a) == IF a.n < 0 THEN -1 ELSE IF a.n > 0 THEN 1 ELSE 0

\* a < b as IEEE 754 compares: false when either side is NaN.
Lt(a, b) ==
    IF IsNaN(a) \/ IsNaN(b) THEN FALSE
    ELSE IF a.k = "inf" THEN a.n < 0 /\ ~(b.k = "inf" /\ b.n < 0)
    ELSE IF b.k = "inf" THEN b.n > 0
    ELSE a.n * b.d < b.n * a.d

\* a == b as IEEE 754 compares: false when either side is NaN.
Eq(a, b) == ~IsNaN(a) /\ ~IsNaN(b) /\ a = b

\* a + b
Add(a, b) ==
    IF IsNaN(a) \/ IsNaN(b) THEN NaN
    ELSE IF a.k = "inf" /\ b.k = "inf" THEN (IF a.n = b.n THEN a ELSE NaN)
    ELSE IF a.k = "inf" THEN a
    ELSE IF b.k = "inf" THEN b
    ELSE Fin(a.n * b.d + b.n * a.d, a.d * b.d)

\* a * b
Mul(a, b) ==
    IF IsNaN(a) \/ IsNaN(b) THEN NaN
    ELSE IF a.k = "inf" \/ b.k = "inf"
         THEN (IF Sign(a) * Sign(b) = 0 THEN NaN
               ELSE IF Sign(a) * Sign(b) > 0 THEN PInf ELSE NInf)
    ELSE Fin(a.n * b.n, a.d * b.d)

\* a / b, numpy's array division: x/0 is an infinity, 0/0 is NaN.
Div(a, b) ==
    IF IsNaN(a) \/ IsNaN(b) THEN NaN
    ELSE IF a.k = "inf" /\ b.k = "inf" THEN NaN
    ELSE IF a.k = "inf"
         THEN (IF Sign(b) < 0 THEN (IF a.n > 0 THEN NInf ELSE PInf) ELSE a)
    ELSE IF b.k = "inf" THEN Zero
    ELSE IF b.n = 0
         THEN (IF a.n = 0 THEN NaN ELSE IF a.n > 0 THEN PInf ELSE NInf)
    ELSE Fin(a.n * b.d, a.d * b.n)

\* a ** 2
Sq(a) == Mul(a, a)

\* ------------------------------------------------------------- np.nanmedian
\* The indices of s whose value is not NaN.
NonNaN(s) == {i \in DOMAIN s : ~IsNaN(s[i])}

\* The k-th smallest (k = 1 is the smallest) of the non-NaN values of s.
KthSmallest(s, k) ==
    LET I == NonNaN(s)
        i == CHOOSE i \in I :
                 /\ Cardinality({j \in I : Lt(s[j], s[i])}) < k
                 /\ Cardinality({j \in I : ~Lt(s[i], s[j])}) >= k
    IN  s[i]

\* np.nanmedian of the values of the function s: the median of the values
\* that are not NaN (the mean of the two middle ones when their number is
\* even), NaN when there is none.
NanMedian(s) ==
    LET m == Cardinality(NonNaN(s))
    IN  IF m = 0 THEN NaN
        ELSE IF m % 2 = 1 THEN KthSmallest(s, (m + 1) \div 2)
        ELSE Div(Add(KthSmallest(s, m \div 2), KthSmallest(s, m \div 2 + 1)),
                 Fin(2, 1))


\* ------------------------------------------------------------------ state
VARIABLES
    \* --- the interpolator (CombinedInterpolator / MILESInterpolator)
    f,                \* what load_training_data last read from the file
    library_spectra,  \* N x W flux matrix
    library_snr,      \* N x W signal-to-noise matrix
    library_labels,   \* N label records
    library_mask,     \* the inclusion mask
    bad_flux_value,   \* the flux given to bad entries
    c3k_weight,       \* relative weight of the c3k rows
    has_errors, unweighted, logify_flux,
    features,         \* the feature set
    coeffs,           \* what train() last fitted
    \* --- the last get_weights call on the library held
    ind_wave,         \* its wavelength indices
    spec_arg,         \* the flux it was given, as the call left it
    weights,          \* what it returned
    prev,             \* the call before it: its arguments and what it returned
    \* --- the last selection by bounds
    sel,
    \* --- a leave-one-out script
    driver,           \* which script runs
    pc,               \* where it is
    i,                \* its loop counter
    loo_indices,      \* the rows (or the count of rows) it loops over
    mask0,            \* the inclusion mask the selection left
    star,             \* the library row whose labels are predicted
    predicted,        \* the predictions it has stored
    inhull,           \* the hull flags it has stored
    \* --- psi/utils.py
    python,           \* the major version of the interpreter
    keys,             \* label_dict.keys(), in the order the call saw
    label_dict,       \* the argument of make_struct
    struct,           \* what make_struct returned
    out,              \* what dict_struct returned
    use_labels,       \* the labels flatten_struct was asked for
    flat_default,     \* what flatten_struct(struct) returned
    flat_named        \* what flatten_struct(struct, use_labels) returned

ivars == <<f, library_spectra, library_snr, library_labels, library_mask,
           bad_flux_value, c3k_weight, has_errors, unweighted, logify_flux,
           features, coeffs>>
cvars == <<ind_wave, spec_arg, weights, prev>>
dvars == <<driver, pc, i, loo_indices, mask0, star, predicted, inhull>>
uvars == <<python, keys, label_dict, struct, out, use_labels, flat_default,
           flat_named>>
vars == <<ivars, cvars, sel, dvars, uvars>>

\* No file has been read.
NoFile == [spectra |-> <<>>, unc |-> <<>>, parameters |-> <<>>,
           snr_threshold |-> NaN]
\* get_weights has not been called.
NotCalled == [kind |-> "notcalled", w |-> <<>>]
\* No earlier get_weights call on the library held.
NoCall == [ind_wave |-> <<>>, spec |-> <<>>, weights |-> NotCalled]
\* The value None returned by get_weights.
None == [kind |-> "None", w |-> <<>>]
\* train() has not been called.
NoCoeffs == [trained |-> FALSE, mask |-> <<>>, features |-> "none"]

\* ------------------------------------------------------------- file content
\* One entry of the file: a flux and its uncertainty.
Pixel(flux, unc) == [flux |-> flux, unc |-> unc]
PixelCases ==
    { Pixel(Fin(2, 1), Fin(1, 1)),    \* S/N 2
      Pixel(Fin(1, 1), Fin(2, 1)),    \* S/N 1/2
      Pixel(Fin(0, 1), Fin(0, 1)),    \* S/N NaN, flux 0
      Pixel(Fin(-2, 1), Fin(1, 1)),   \* S/N -2
      Pixel(Fin(1, 1), Fin(0, 1)),    \* S/N +inf
      Pixel(NaN, Fin(1, 1)) }         \* S/N NaN, flux NaN
\* The entries of the files read under SpecWeights.
WeightPixelCases ==
    { Pixel(Fin(2, 1), Fin(1, 1)),    \* S/N 2
      Pixel(Fin(1, 1), Fin(2, 1)),    \* S/N 1/2
      Pixel(Fin(0, 1), Fin(0, 1)) }   \* S/N NaN, flux 0

\* The label records of the file: a star's id, temperature and gravity.
Label(id, teff, logg) == [miles_id |-> id, teff |-> teff, logg |-> logg]

\* The pixel matrices of the files: the first wavelength channel holds any
\* pixel of P in each row, every other channel one pixel of P for all rows.
PixelMatrices(P) ==
    { [r \in Rows |-> [w \in Waves |-> IF w = 0 THEN col[r] ELSE rest[w]]] :
        col \in [Rows -> P], rest \in [Waves \ {0} -> P] }

\* f['spectra'], f['uncertainties']
FluxOf(px) == [r \in Rows |-> [w \in Waves |-> px[r][w].flux]]
UncOf(px) == [r \in Rows |-> [w \in Waves |-> px[r][w].unc]]

FileOf(px, ids, th) ==
    [spectra |-> FluxOf(px),
     unc |-> UncOf(px),
     parameters |-> [r \in Rows |-> Label(ids[r], 0, 0)],
     snr_threshold |-> th]

\* The thresholds load_training_data is called with: a tiny one, below every
\* positive S/N of the files above as the default 1e-10 is, and 2.
SnrThresholds == {Fin(1, 1000), Fin(2, 1)}
\* The values of c3k_weight: the default 0.1, and 0.
C3kWeights == {Fin(1, 10), Zero}

\* ------------------------------------------------------ load_training_data
\* library_spectra / unc, entry by entry.
SnrOf(spectra, unc) ==
    [r \in DOMAIN spectra |-> [w \in DOMAIN spectra[r] |->
        Div(spectra[r][w], unc[r][w])]]

\* IsBad without the test for non-finite values.
IsBadNoFinite(snr, snr_threshold) == Lt(snr, snr_threshold)

\* (library_snr < snr_threshold) | (~np.isfinite(library_snr))
IsBad(snr, snr_threshold) == Lt(snr, snr_threshold) \/ ~IsFinite(snr)

\* np.nanmedian(library_spectra): the median over all entries of the matrix.
MatrixNanMedian(spectra) ==
    NanMedian([e \in {<<r, w>> : r \in DOMAIN spectra, w \in Waves} |->
                  spectra[e[1]][e[2]]])

\* The arrays load_training_data leaves in the model.
Cleaned(spectra, unc, snr_threshold) ==
    LET snr == SnrOf(spectra, unc)
        bfv == MatrixNanMedian(spectra)
    IN  [bad_flux_value |-> bfv,
         spectra |-> [r \in DOMAIN spectra |-> [w \in DOMAIN spectra[r] |->
             IF IsBad(snr[r][w], snr_threshold) THEN bfv ELSE spectra[r][w]]],
         snr |-> [r \in DOMAIN spectra |-> [w \in DOMAIN spectra[r] |->
             IF IsBad(snr[r][w], snr_threshold) THEN Zero ELSE snr[r][w]]]]

\* reset_mask(): every row of the library is included.
ResetMask(labels) == [r \in DOMAIN labels |-> TRUE]

\* load_training_data(training_data, c3k_weight, snr_threshold), with c the
\* arrays it computes from the file; remember says whether f keeps what was
\* read.
LoadTrainingData(training_data, c, cw, remember) ==
    /\ f' = IF remember THEN training_data ELSE NoFile
    /\ library_spectra' = c.spectra
    /\ library_snr' = c.snr
    /\ library_labels' = training_data.parameters
    /\ bad_flux_value' = c.bad_flux_value
    /\ c3k_weight' = cw
    /\ has_errors' = TRUE
    /\ library_mask' = ResetMask(training_data.parameters)
    /\ UNCHANGED <<unweighted, logify_flux, features, coeffs>>

\* ------------------------------------------------------------ training view
RECURSIVE SortedSeq(_)
\* The members of a set of integers, in increasing order.
SortedSeq(S) ==
    IF S = {} THEN <<>>
    ELSE LET m == CHOOSE x \in S : \A y \in S : x <= y
         IN  <<m>> \o SortedSeq(S \ {m})

\* training_indices: the library rows whose mask bit is set, in order.
TrainingIndices(mask) == SortedSeq({r \in DOMAIN mask : mask[r]})

\* training_snr, training_spectra, training_labels: the masked rows of a.
TrainingView(a, mask) ==
    [t \in 1..Len(TrainingIndices(mask)) |-> a[TrainingIndices(mask)[t]]]

\* -------------------------------------------------------------- get_weights
\* RelativeWeights dividing by the flux, not by its square, in linear flux.
RelativeWeightsFlux(tsnr, iw, spec) ==
    [t \in DOMAIN tsnr |-> [c \in DOMAIN iw |->
        IF logify_flux THEN Sq(tsnr[t][iw[c]])
        ELSE Div(Sq(tsnr[t][iw[c]]), spec[t][c])]]

\* The relative weights before the c3k rows are rescaled.
RelativeWeights(tsnr, iw, spec) ==
    [t \in DOMAIN tsnr |-> [c \in DOMAIN iw |->
        IF logify_flux THEN Sq(tsnr[t][iw[c]])
        ELSE Sq(Div(tsnr[t][iw[c]], spec[t][c]))]]

\* WMiles keeping a median of zero.
WMilesKeepZero(rw, c3k, iw) ==
    [c \in DOMAIN iw |-> NanMedian([t \in (DOMAIN rw) \ c3k |-> rw[t][c]])]

\* wmiles: np.nanmedian(relative_weights[~c3k, :], axis=0), zeros set to 1.0.
WMiles(rw, c3k, iw) ==
    [c \in DOMAIN iw |->
        LET m == NanMedian([t \in (DOMAIN rw) \ c3k |-> rw[t][c]])
        IN  IF Eq(m, Zero) THEN One ELSE m]

\* relative_weights[c3k, :] = (wmiles * self.c3k_weight)[None, :]
RescaleC3k(rw, c3k, iw) ==
    [t \in DOMAIN rw |->
        IF t \in c3k
        THEN [c \in DOMAIN iw |-> Mul(WMiles(rw, c3k, iw)[c], c3k_weight)]
        ELSE rw[t]]

\* Whether get_weights returns None.
Unweighted == (~has_errors) \/ unweighted

\* What get_weights(ind_wave, spec) returns.
GetWeightsValue(iw, spec) ==
    IF Unweighted THEN None
    ELSE LET tsnr == TrainingView(library_snr, library_mask)
             tlab == TrainingView(library_labels, library_mask)
             c3k == {t \in DOMAIN tlab : tlab[t].miles_id = "c3k"}
         IN  [kind |-> "array",
              w |-> RescaleC3k(RelativeWeights(tsnr, iw, spec), c3k, iw)]

\* The flux of the training spectra at the wavelengths iw.
TrainingFlux(iw) ==
    LET ts == TrainingView(library_spectra, library_mask)
    IN  [t \in DOMAIN ts |-> [c \in DOMAIN iw |-> ts[t][iw[c]]]]

\* The index arrays get_weights is called with: the last wavelength alone,
\* or all of them.
IndWaves == {[c \in {1} |-> NWave - 1], [c \in 1..NWave |-> c - 1]}

\* The S/N table with the weights w written into the training rows at the
\* wavelengths iw.
SnrOverwritten(w, iw) ==
    [r \in DOMAIN library_snr |-> [v \in DOMAIN library_snr[r] |->
        IF \E t \in DOMAIN w, c \in DOMAIN iw :
               TrainingIndices(library_mask)[t] = r /\ iw[c] = v
        THEN LET t == CHOOSE t \in DOMAIN w :
                          TrainingIndices(library_mask)[t] = r
                 c == CHOOSE c \in DOMAIN iw : iw[c] = v
             IN  w[t][c]
        ELSE library_snr[r][v]]]

\* GetWeights squaring and rescaling the stored S/N in place, the returned
\* array being a view of it.
GetWeightsInPlace(iw) ==
    /\ ind_wave' = iw
    /\ spec_arg' = TrainingFlux(iw)
    /\ weights' = GetWeightsValue(iw, TrainingFlux(iw))
    /\ library_snr' =
           IF Unweighted THEN library_snr
           ELSE SnrOverwritten(GetWeightsValue(iw, TrainingFlux(iw)).w, iw)
    /\ UNCHANGED <<f, library_spectra, library_labels, library_mask,
                   bad_flux_value, c3k_weight, has_errors, unweighted,
                   logify_flux, features, coeffs>>

\* get_weights(ind_wave, spec), with spec the training flux at ind_wave: the
\* weights are a new array, and neither the model nor spec is written.
GetWeights(iw) ==
    /\ ind_wave' = iw
    /\ spec_arg' = TrainingFlux(iw)
    /\ weights' = GetWeightsValue(iw, TrainingFlux(iw))
    /\ UNCHANGED ivars

\* ------------------------------------------------------------ initial state
\* The interpolator with no library loaded.
InitModel ==
    /\ f = NoFile
    /\ library_spectra = <<>>
    /\ library_snr = <<>>
    /\ library_labels = <<>>
    /\ library_mask = <<>>
    /\ bad_flux_value = NaN
    /\ c3k_weight = Fin(1, 10)
    /\ has_errors = FALSE
    /\ features = "none"
    /\ coeffs = NoCoeffs

InitCall ==
    /\ ind_wave = <<>>
    /\ spec_arg = <<>>
    /\ weights = NotCalled
    /\ prev = NoCall
InitSel == sel = [called |-> FALSE, bounds |-> <<>>, mask |-> <<>>]
InitDriver ==
    /\ driver = "none"
    /\ pc = "none"
    /\ i = 0
    /\ loo_indices = <<>>
    /\ mask0 = <<>>
    /\ star = 0
    /\ predicted = <<>>
    /\ inhull = <<>>
\* make_struct / dict_struct have not been called.
NoStruct == [kind |-> "none", names |-> {}, rows |-> <<>>]
NoDict == [kind |-> "none", d |-> <<>>]
\* flatten_struct has not been called.
NoArray == [kind |-> "none", shape |-> <<>>, data |-> <<>>]
InitUtils ==
    /\ python = 3
    /\ keys = <<>>
    /\ label_dict = <<>>
    /\ struct = NoStruct
    /\ out = NoDict
    /\ use_labels = <<>>
    /\ flat_default = NoArray
    /\ flat_named = NoArray

\* ---------------------------------------------- loading and weighting specs
InitW ==
    /\ InitModel /\ InitCall /\ InitSel /\ InitDriver /\ InitUtils
    /\ unweighted \in BOOLEAN
    /\ logify_flux \in BOOLEAN
    /\ unweighted => logify_flux

\* The constructor's load of a library, under SpecWeights.
LoadW ==
    /\ library_snr = <<>>
    /\ \E px \in PixelMatrices(WeightPixelCases), th \in {Fin(1, 1000)} :
        LET c == Cleaned(FluxOf(px), UncOf(px), th)
        IN  \E ids \in [Rows -> {"c3k", "s"}], cw \in C3kWeights :
                LoadTrainingData(FileOf(px, ids, th), c, cw, FALSE)
    /\ ind_wave' = <<>>
    /\ spec_arg' = <<>>
    /\ weights' = NotCalled
    /\ prev' = NoCall
    /\ UNCHANGED <<sel, dvars, uvars>>

\* The constructor's load of a library, under SpecLoad.
LoadL ==
    /\ library_snr = <<>>
    /\ \E px \in PixelMatrices(PixelCases), th \in SnrThresholds :
        LoadTrainingData(FileOf(px, [r \in Rows |-> "s"], th),
                         Cleaned(FluxOf(px), UncOf(px), th), Fin(1, 10), TRUE)
    /\ ind_wave' = <<>>
    /\ spec_arg' = <<>>
    /\ weights' = NotCalled
    /\ prev' = NoCall
    /\ UNCHANGED <<sel, dvars, uvars>>

CallW ==
    /\ library_snr # <<>> \/ Unweighted
    /\ \E iw \in IndWaves : GetWeights(iw)
    /\ UNCHANGED <<prev, sel, dvars, uvars>>

NextW == LoadW \/ CallW
NextL == LoadL
SpecWeights == InitW /\ [][NextW]_vars
SpecLoad == InitW /\ [][NextL]_vars

\* ------------------------------------------------- successive get_weights
\* The constructor's load of a library, with the default c3k_weight.
LoadR ==
    /\ library_snr = <<>>
    /\ \E px \in PixelMatrices(WeightPixelCases), th \in {Fin(1, 1000)} :
        LET c == Cleaned(FluxOf(px), UncOf(px), th)
        IN  \E ids \in [Rows -> {"c3k", "s"}] :
                LoadTrainingData(FileOf(px, ids, th), c, Fin(1, 10), FALSE)
    /\ ind_wave' = <<>>
    /\ spec_arg' = <<>>
    /\ weights' = NotCalled
    /\ prev' = NoCall
    /\ UNCHANGED <<sel, dvars, uvars>>

\* A get_weights call, the call before it being remembered.
CallR ==
    /\ library_snr # <<>> \/ Unweighted
    /\ \E iw \in IndWaves : GetWeights(iw)
    /\ prev' = [ind_wave |-> ind_wave, spec |-> spec_arg, weights |-> weights]
    /\ UNCHANGED <<sel, dvars, uvars>>

NextR == LoadR \/ CallR
SpecReadOnly == InitW /\ [][NextR]_vars

\* ---------------------------------------------------- selection by bounds
\* within using <= and >=.
withinClosed(bound, value) == (value <= bound[2]) /\ (value >= bound[1])

\* within(bound, value), bound being the pair (min, max).
within(bound, value) == (value < bound[2]) /\ (value > bound[1])

\* The mask select(bounds=bounds, delete=False) leaves: a row stays included
\* only if its label passes within for every declared bound.
Select(mask, labels, bounds) ==
    [r \in DOMAIN mask |->
        mask[r] /\ \A name \in DOMAIN bounds : within(bounds[name], labels[r][name])]

\* The mask select(badvalues={'miles_id': ids}) leaves.
SelectBadValues(mask, labels, ids) ==
    [r \in DOMAIN mask |-> mask[r] /\ labels[r].miles_id \notin ids]

\* The mask leave_out(inds) leaves: the mask bits of the library rows inds
\* are cleared.
LeaveOut(mask, inds) == [r \in DOMAIN mask |-> mask[r] /\ r \notin inds]

\* The labels of the libraries selected from, and the bounds declared.
SelectTeffs == {4, 5, 7, 8}
SelectLoggs == {1, 2}
SelectBounds ==
    { <<>>,
      [name \in {"teff"} |-> <<4, 7>>],
      [name \in {"logg"} |-> <<1, 3>>],
      [name \in {"teff", "logg"} |-> IF name = "teff" THEN <<4, 7>> ELSE <<1, 3>>] }

\* A library with one good pixel everywhere and the labels given.
PlainLibrary(labels) ==
    /\ library_spectra = [r \in Rows |-> [w \in Waves |-> Fin(2, 1)]]
    /\ library_snr = [r \in Rows |-> [w \in Waves |-> Fin(2, 1)]]
    /\ library_labels = labels
    /\ library_mask = ResetMask(labels)
    /\ f = NoFile
    /\ bad_flux_value = Fin(2, 1)
    /\ c3k_weight = Fin(1, 10)
    /\ has_errors = TRUE
    /\ unweighted = FALSE
    /\ logify_flux = TRUE
    /\ features = "none"
    /\ coeffs = NoCoeffs

\* The interpolator as constructed from a library file.
InitS ==
    /\ \E teff \in [Rows -> SelectTeffs], logg \in [Rows -> SelectLoggs] :
        PlainLibrary([r \in Rows |-> Label("s", teff[r], logg[r])])
    /\ InitCall /\ InitSel /\ InitDriver /\ InitUtils

\* leave_out(j), before any selection
LeaveOutS ==
    /\ ~sel.called
    /\ library_mask = ResetMask(library_labels)
    /\ \E j \in Rows : library_mask' = LeaveOut(library_mask, {j})
    /\ UNCHANGED <<f, library_spectra, library_snr, library_labels,
                   bad_flux_value, c3k_weight, has_errors, unweighted,
                   logify_flux, features, coeffs, cvars, sel, dvars, uvars>>

\* select(bounds=bounds, delete=False)
SelectS ==
    /\ ~sel.called
    /\ \E bounds \in SelectBounds :
        /\ library_mask' = Select(library_mask, library_labels, bounds)
        /\ sel' = [called |-> TRUE, bounds |-> bounds, mask |-> library_mask]
    /\ UNCHANGED <<f, library_spectra, library_snr, library_labels,
                   bad_flux_value, c3k_weight, has_errors, unweighted,
                   logify_flux, features, coeffs, cvars, dvars, uvars>>

NextS == LeaveOutS \/ SelectS
SpecSelect == InitS /\ [][NextS]_vars

\* ------------------------------------------------ the leave-one-out scripts
\* The scripts: demo/loo_combined.py, demo/miles_irtf/loo.py, psi/loo.py and
\* psi/tests/loo_irtf.py.
Drivers == {"combined", "miles_irtf", "loo", "loo_irtf"}
\* The scripts that toggle library_mask[j], and those that reload the library
\* and call leave_out(i).
Toggling == {"combined", "miles_irtf"}
Reloading == {"loo", "loo_irtf"}

\* The bounds each script declares (bounds[regime], fgk_bounds), on the
\* temperatures LooTeffs of the libraries.
LooTeffs == {4, 5, 6}
LooBounds == [name \in {"teff"} |-> <<4, 7>>]
\* allbadstars: the ids of the stars listed as bad.
allbadstars == {"bad"}
\* The ids of the rows of the library each script reads.
LooIds(d) ==
    IF d = "combined" THEN [Rows -> {"c3k", "mdwarf", "s"}]
    ELSE IF d = "loo" THEN {[r \in Rows |-> "s"]}
    ELSE {ids \in [Rows -> {"bad", "s"}] :
              Cardinality({r \in Rows : ids[r] = "bad"}) <= 1}

\* No prediction / no hull flag stored yet (np.zeros).
Unset == [set |-> FALSE]

\* ntrain = n_train; predicted = np.zeros([ntrain, n_wave])
ClearOutputs(n, hull) ==
    /\ predicted' = [k \in 0..(n - 1) |-> Unset]
    /\ inhull' = IF hull THEN [k \in 0..(n - 1) |-> Unset] ELSE <<>>

\* What the scripts leave alone.
LibraryKept ==
    UNCHANGED <<f, library_spectra, library_snr, library_labels,
                bad_flux_value, c3k_weight, has_errors, unweighted,
                logify_flux, cvars, sel, uvars>>

\* The rows np.where(miles_id == id) gives.
RowsWithId(id) == {r \in Rows : library_labels[r].miles_id = id}

\* [miles_id.tolist().index(b) for b in bad_ids if b in miles_id]
BadStarIndices ==
    {CHOOSE r \in RowsWithId(b) : \A q \in RowsWithId(b) : r <= q :
        b \in {c \in allbadstars : RowsWithId(c) # {}}}

\* reselect(spi, mlib, bad_ids, bounds) of psi/tests/loo_irtf.py: reload,
\* leave out the bad stars, restrict to the bounds.
ReselectMask ==
    Select(LeaveOut(ResetMask(library_labels), BadStarIndices),
           library_labels, LooBounds)

\* load_training_data; restrict_sample(bounds) of psi/loo.py.
RestrictMask == Select(ResetMask(library_labels), library_labels, LooBounds)

\* The interpolator as each script constructs it.
InitLOO ==
    /\ \E d \in Drivers :
        /\ driver = d
        /\ \E ids \in LooIds(d), teff \in [Rows -> LooTeffs] :
            PlainLibrary([r \in Rows |-> Label(ids[r], teff[r], 0)])
    /\ pc = "start"
    /\ i = 0
    /\ loo_indices = <<>>
    /\ mask0 = <<>>
    /\ star = 0
    /\ predicted = <<>>
    /\ inhull = <<>>
    /\ InitCall /\ InitSel /\ InitUtils

\* demo/loo_combined.py up to its loop: leave out the mdwarfs, select by
\* bounds, set the features, and take the non-c3k training rows to loop over.
SetupCombined ==
    /\ driver = "combined" /\ pc = "start"
    /\ LET m == Select(LeaveOut(library_mask, RowsWithId("mdwarf")),
                       library_labels, LooBounds)
           idx == SelectSeq(TrainingIndices(m),
                            LAMBDA r : library_labels[r].miles_id # "c3k")
       IN  /\ library_mask' = m
           /\ mask0' = m
           /\ loo_indices' = idx
           /\ ClearOutputs(Len(idx), TRUE)
    /\ features' = "features[regime]"
    /\ pc' = "loop"
    /\ UNCHANGED <<coeffs, driver, i, star>>
    /\ LibraryKept

\* demo/miles_irtf/loo.py up to its loop: set the features, select by bounds
\* and bad stars, and copy training_indices.
SetupMilesIrtf ==
    /\ driver = "miles_irtf" /\ pc = "start"
    /\ LET m == SelectBadValues(
                    Select(ResetMask(library_labels), library_labels, LooBounds),
                    library_labels, allbadstars)
       IN  /\ library_mask' = m
           /\ mask0' = m
           /\ loo_indices' = TrainingIndices(m)
           /\ ClearOutputs(Len(TrainingIndices(m)), FALSE)
    /\ features' = "miles_irtf"
    /\ pc' = "loop"
    /\ UNCHANGED <<coeffs, driver, i, star>>
    /\ LibraryKept

\* psi/loo.py up to its loop: restrict to the bounds, ntrain = n_train.
SetupLoo ==
    /\ driver = "loo" /\ pc = "start"
    /\ library_mask' = RestrictMask
    /\ mask0' = RestrictMask
    /\ loo_indices' = [k \in 1..Len(TrainingIndices(RestrictMask)) |-> k - 1]
    /\ ClearOutputs(Len(TrainingIndices(RestrictMask)), FALSE)
    /\ pc' = "loop"
    /\ UNCHANGED <<features, coeffs, driver, i, star>>
    /\ LibraryKept

\* psi/tests/loo_irtf.py up to its loop: set the features, reselect,
\* ntrain = n_train.
SetupLooIrtf ==
    /\ driver = "loo_irtf" /\ pc = "start"
    /\ library_mask' = ReselectMask
    /\ mask0' = ReselectMask
    /\ loo_indices' = [k \in 1..Len(TrainingIndices(ReselectMask)) |-> k - 1]
    /\ ClearOutputs(Len(TrainingIndices(ReselectMask)), FALSE)
    /\ features' = "loo_irtf"
    /\ pc' = "loop"
    /\ UNCHANGED <<coeffs, driver, i, star>>
    /\ LibraryKept

\* The loop has a next iteration.
InLoop == pc = "loop" /\ i < Len(loo_indices)

\* for i, j in enumerate(loo_indices): take the labels of library row j and
\* set library_mask[j] = False.
LeaveOneOut ==
    /\ driver \in Toggling /\ InLoop
    /\ star' = loo_indices[i + 1]
    /\ library_mask' = [library_mask EXCEPT ![loo_indices[i + 1]] = FALSE]
    /\ pc' = "left_out"
    /\ UNCHANGED <<features, coeffs, driver, i, loo_indices, mask0,
                   predicted, inhull>>
    /\ LibraryKept

\* for i in range(ntrain): reload and select again (and, in psi/loo.py, set
\* the features).
Reselect ==
    /\ driver \in Reloading /\ InLoop
    /\ library_mask' = IF driver = "loo" THEN RestrictMask ELSE ReselectMask
    /\ mask0' = IF driver = "loo" THEN RestrictMask ELSE ReselectMask
    /\ features' = IF driver = "loo" THEN "loo" ELSE features
    /\ pc' = "selected"
    /\ UNCHANGED <<coeffs, driver, i, loo_indices, star, predicted, inhull>>
    /\ LibraryKept

\* tlabels = training_labels[i]; leave_out(i)
LeaveOutI ==
    /\ pc = "selected"
    /\ star' = TrainingIndices(library_mask)[i + 1]
    /\ library_mask' = LeaveOut(library_mask, {i})
    /\ pc' = "left_out"
    /\ UNCHANGED <<features, coeffs, driver, i, loo_indices, mask0,
                   predicted, inhull>>
    /\ LibraryKept

\* train() called in the first iteration only: later iterations keep the
\* coefficients of the first fit.
TrainOnce ==
    /\ pc = "left_out"
    /\ coeffs' = IF coeffs.trained THEN coeffs
                 ELSE [trained |-> TRUE, mask |-> library_mask,
                       features |-> features]
    /\ pc' = "trained"
    /\ UNCHANGED <<library_mask, features, driver, i, loo_indices, mask0,
                   star, predicted, inhull>>
    /\ LibraryKept

\* train(): the coefficients are fitted on the rows and the features in force.
Train ==
    /\ pc = "left_out"
    /\ coeffs' = [trained |-> TRUE, mask |-> library_mask, features |-> features]
    /\ pc' = "trained"
    /\ UNCHANGED <<library_mask, features, driver, i, loo_indices, mask0,
                   star, predicted, inhull>>
    /\ LibraryKept

\* predicted[i, :] = get_star_spectrum(**labels): the prediction for the
\* star, with the coefficients, the mask and the features it was made under.
Predict ==
    /\ pc = "trained"
    /\ predicted' = [predicted EXCEPT ![i] =
           [set |-> TRUE, star |-> star, coeffs |-> coeffs,
            mask |-> library_mask, features |-> features]]
    /\ pc' = "predicted"
    /\ UNCHANGED <<library_mask, features, coeffs, driver, i, loo_indices,
                   mask0, star, inhull>>
    /\ LibraryKept

\* inside_hull(labels): whether the point lies in the hull of the labels of
\* the training rows, here the interval their temperatures span.
InsideHull(point, mask) ==
    /\ \E r \in DOMAIN mask : mask[r] /\ library_labels[r].teff <= point.teff
    /\ \E r \in DOMAIN mask : mask[r] /\ library_labels[r].teff >= point.teff

\* InsideHull voiding the prediction of a star outside the hull.
InsideHullStepVoiding ==
    /\ driver = "combined" /\ pc = "predicted"
    /\ inhull' = [inhull EXCEPT ![i] =
           [set |-> TRUE, mask |-> library_mask,
            value |-> InsideHull(library_labels[star], library_mask)]]
    /\ predicted' = IF InsideHull(library_labels[star], library_mask)
                    THEN predicted ELSE [predicted EXCEPT ![i] = Unset]
    /\ pc' = "hulled"
    /\ UNCHANGED <<library_mask, features, coeffs, driver, i, loo_indices,
                   mask0, star>>
    /\ LibraryKept

\* inhull[i] = spi.inside_hull(labels)
InsideHullStep ==
    /\ driver = "combined" /\ pc = "predicted"
    /\ inhull' = [inhull EXCEPT ![i] =
           [set |-> TRUE, mask |-> library_mask,
            value |-> InsideHull(library_labels[star], library_mask)]]
    /\ pc' = "hulled"
    /\ UNCHANGED <<library_mask, features, coeffs, driver, i, loo_indices,
                   mask0, star, predicted>>
    /\ LibraryKept

\* PutBack without setting the mask bit back.
PutBackNothing ==
    /\ \/ driver = "combined" /\ pc = "hulled"
       \/ driver = "miles_irtf" /\ pc = "predicted"
    /\ i' = i + 1
    /\ pc' = "loop"
    /\ UNCHANGED <<library_mask, features, coeffs, driver, loo_indices, mask0,
                   star, predicted, inhull>>
    /\ LibraryKept

\* library_mask[j] = True, and on to the next iteration.
PutBack ==
    /\ \/ driver = "combined" /\ pc = "hulled"
       \/ driver = "miles_irtf" /\ pc = "predicted"
    /\ library_mask' = [library_mask EXCEPT ![loo_indices[i + 1]] = TRUE]
    /\ i' = i + 1
    /\ pc' = "loop"
    /\ UNCHANGED <<features, coeffs, driver, loo_indices, mask0, star,
                   predicted, inhull>>
    /\ LibraryKept

\* The end of an iteration of the reloading scripts.
NextIteration ==
    /\ driver \in Reloading /\ pc = "predicted"
    /\ i' = i + 1
    /\ pc' = "loop"
    /\ UNCHANGED <<library_mask, features, coeffs, driver, loo_indices, mask0,
                   star, predicted, inhull>>
    /\ LibraryKept

\* The loop is over; the reloading scripts reload the full training set.
Finish ==
    /\ pc = "loop" /\ i = Len(loo_indices)
    /\ library_mask' = IF driver = "loo" THEN RestrictMask
                       ELSE IF driver = "loo_irtf" THEN ReselectMask
                       ELSE library_mask
    /\ pc' = "done"
    /\ UNCHANGED <<features, coeffs, driver, i, loo_indices, mask0, star,
                   predicted, inhull>>
    /\ LibraryKept

NextLOO ==
    \/ SetupCombined \/ SetupMilesIrtf \/ SetupLoo \/ SetupLooIrtf
    \/ LeaveOneOut \/ Reselect \/ LeaveOutI
    \/ Train \/ Predict \/ InsideHullStep
    \/ PutBack \/ NextIteration \/ Finish
SpecLOO == InitLOO /\ [][NextLOO]_vars

\* ---------------------------------------------------------- psi/utils.py
\* The longest list of values a label is given.
MaxLen == 2
\* The label names and the numbers the dictionaries hold: Python ints and
\* floats.
LabelNames == {"teff", "logg"}
Number(t, v) == [t |-> t, v |-> v]
Numbers == {Number("int", 5), Number("float", 6)}
\* A value of the dictionary: a scalar, or a list of numbers.
Scalar(x) == [list |-> FALSE, vals |-> <<x>>]
List(xs) == [list |-> TRUE, vals |-> xs]
DictValues ==
    {Scalar(x) : x \in Numbers} \cup
    UNION {{List(xs) : xs \in [1..n -> Numbers]} : n \in 0..MaxLen}
\* The dictionaries of label name -> value(s).
LabelDicts ==
    UNION {[ns -> DictValues] : ns \in (SUBSET LabelNames) \ {{}}}
\* The orders keys() can list the names of d in.
KeyOrders(d) ==
    {ks \in [1..Cardinality(DOMAIN d) -> DOMAIN d] :
        \A a, b \in DOMAIN ks : a # b => ks[a] # ks[b]}

\* np.float: what a field of the array stores of a number.
AsFloat(x) == Number("float", x.v)

\* nl: len(label_dict[label_dict.keys()[0]]), or 1 when that raises: keys()
\* of Python 3 cannot be indexed, and a scalar has no len.
NumLabels(d, ks, py) ==
    IF py = 2 /\ d[ks[1]].list THEN Len(d[ks[1]].vals) ELSE 1

\* labels[n] = label_dict[n] on an array of nl rows: numpy broadcasts a
\* scalar and a list of one value, stores a list of nl values, and raises
\* ValueError otherwise.
Broadcasts(v, nl) == (~v.list) \/ Len(v.vals) = 1 \/ Len(v.vals) = nl
Column(v, nl) ==
    [k \in 1..nl |->
        AsFloat(IF v.list /\ Len(v.vals) = nl THEN v.vals[k] ELSE v.vals[1])]

\* make_struct(**label_dict)
make_struct(d, ks, py) ==
    LET nl == NumLabels(d, ks, py)
    IN  IF \E n \in DOMAIN d : ~Broadcasts(d[n], nl)
        THEN [kind |-> "ValueError", names |-> {}, rows |-> <<>>]
        ELSE [kind |-> "array",
              names |-> DOMAIN d,
              rows |-> [k \in 1..nl |->
                           [n \in DOMAIN d |-> Column(d[n], nl)[k]]]]

\* dict_struct(struct)
dict_struct(s) ==
    [kind |-> "dict",
     d |-> [n \in s.names |-> [k \in DOMAIN s.rows |-> s.rows[k][n]]]]

InitStruct ==
    /\ python \in {2, 3}
    /\ keys = <<>>
    /\ label_dict = <<>>
    /\ struct = NoStruct
    /\ out = NoDict
    /\ use_labels = <<>>
    /\ flat_default = NoArray
    /\ flat_named = NoArray
    /\ InitModel /\ unweighted = FALSE /\ logify_flux = TRUE
    /\ InitCall /\ InitSel /\ InitDriver

\* A call of make_struct.
MakeStruct ==
    /\ struct = NoStruct
    /\ \E d \in LabelDicts :
        \E ks \in KeyOrders(d) :
            /\ label_dict' = d
            /\ keys' = ks
            /\ struct' = make_struct(d, ks, python)
    /\ UNCHANGED <<python, out, use_labels, flat_default, flat_named, ivars,
                   cvars, sel, dvars>>

\* A call of dict_struct on what make_struct returned.
DictStruct ==
    /\ struct.kind = "array"
    /\ out = NoDict
    /\ out' = dict_struct(struct)
    /\ UNCHANGED <<python, keys, label_dict, struct, use_labels, flat_default,
                   flat_named, ivars, cvars, sel, dvars>>

NextStruct == MakeStruct \/ DictStruct
SpecStruct == InitStruct /\ [][NextStruct]_vars

\* ------------------------------------------------------------ flatten_struct
\* The orders the fields of a structured array can be declared in.
FieldOrders ==
    UNION {{ks \in [1..Cardinality(ns) -> ns] :
               \A a, b \in DOMAIN ks : a # b => ks[a] # ks[b]} :
           ns \in (SUBSET LabelNames) \ {{}}}
\* The float values of the fields.
Floats == {Number("float", 5), Number("float", 6)}
\* The structured arrays of one to MaxLen records with the fields ks.
StructArrays(ks) ==
    LET ns == {ks[a] : a \in DOMAIN ks}
    IN  UNION {{[kind |-> "array", names |-> ns, rows |-> rs] :
                   rs \in [1..n -> [ns -> Floats]]} : n \in 1..MaxLen}

\* struct.tolist(): the records as tuples, fields in the order of the dtype.
ToList(s, names) ==
    [k \in DOMAIN s.rows |-> [a \in DOMAIN names |-> s.rows[k][names[a]]]]

\* np.array of a list of equally long sequences: one axis per nesting level,
\* and a single axis of length 0 for the empty list.
NpArray(l) ==
    [kind |-> "array",
     shape |-> IF Len(l) = 0 THEN <<0>> ELSE <<Len(l), Len(l[1])>>,
     data |-> l]

\* flatten_struct(struct, use_labels=None), names being struct.dtype.names.
flatten_struct(s, names, labels) ==
    IF labels = <<>>
    THEN NpArray(ToList(s, names))
    ELSE NpArray([j \in DOMAIN labels |->
                     [k \in DOMAIN s.rows |-> s.rows[k][labels[j]]]])

\* A structured array of labels, its fields in the order keys.
InitFlatten ==
    /\ python = 3
    /\ keys \in FieldOrders
    /\ struct \in StructArrays(keys)
    /\ label_dict = <<>>
    /\ out = NoDict
    /\ use_labels = <<>>
    /\ flat_default = NoArray
    /\ flat_named = NoArray
    /\ InitModel /\ unweighted = FALSE /\ logify_flux = TRUE
    /\ InitCall /\ InitSel /\ InitDriver

\* flatten_struct(struct)
FlattenDefault ==
    /\ flat_default = NoArray
    /\ flat_default' = flatten_struct(struct, keys, <<>>)
    /\ UNCHANGED <<python, keys, label_dict, struct, out, use_labels,
                   flat_named, ivars, cvars, sel, dvars>>

\* flatten_struct(struct, use_labels), use_labels naming fields of struct.
FlattenNamed ==
    /\ flat_named = NoArray
    /\ \E n \in 1..Cardinality(struct.names) :
        \E ul \in [1..n -> struct.names] :
            /\ use_labels' = ul
            /\ flat_named' = flatten_struct(struct, keys, ul)
    /\ UNCHANGED <<python, keys, label_dict, struct, out, flat_default,
                   ivars, cvars, sel, dvars>>

NextFlatten == FlattenDefault \/ FlattenNamed
SpecFlatten == InitFlatten /\ [][NextFlatten]_vars

\* ------------------------------------------------- claims on the weighting
\* m is the median of the values of s that are not NaN: a value of s with
\* fewer than half of the values on each side, or the mean of the two middle
\* values when exactly half of them lie on each side of m.
IsMedian(m, s) ==
    LET I == {j \in DOMAIN s : ~IsNaN(s[j])}
        lt == {j \in I : Lt(s[j], m)}
        gt == {j \in I : Lt(m, s[j])}
        n == Cardinality(I)
    IN  \/ /\ \E j \in I : s[j] = m
           /\ 2 * Cardinality(lt) < n
           /\ 2 * Cardinality(gt) < n
        \/ /\ 2 * Cardinality(lt) = n
           /\ 2 * Cardinality(gt) = n
           /\ \E a \in lt, b \in gt :
                /\ \A x \in lt : ~Lt(s[a], s[x])
                /\ \A y \in gt : ~Lt(s[y], s[b])
                /\ Add(m, m) = Add(s[a], s[b])

\* The values a median of s can take.
MedianCandidates(s) ==
    {s[j] : j \in DOMAIN s}
        \cup {Div(Add(s[j], s[k]), Fin(2, 1)) : j \in DOMAIN s, k \in DOMAIN s}

\* The library row behind training row t.
RowOf(t) == TrainingIndices(library_mask)[t]
\* Whether training row t is a row of the synthetic sub-population.
Flagged(t) == library_labels[RowOf(t)].miles_id = "c3k"
\* The base weight of training row t at wavelength w: (S/N)^2 in log flux,
\* (S/N)^2 / flux^2 in linear flux.
BaseWeight(t, w) ==
    IF logify_flux THEN Sq(library_snr[RowOf(t)][w])
    ELSE Div(Sq(library_snr[RowOf(t)][w]), Sq(library_spectra[RowOf(t)][w]))
\* The base weights of the non-flagged training rows at wavelength w.
PlainWeights(w) ==
    [t \in {u \in DOMAIN weights.w : ~Flagged(u)} |-> BaseWeight(t, w)]

\* C1: in a weight array returned by get_weights, every flagged ('c3k') row
\* holds, at each wavelength, c3k_weight * m, with m the median of the
\* (non-NaN) base weights of the non-flagged rows at that wavelength, taken
\* as 1 when that median is zero; every non-flagged row holds its base weight.
C1_C3kRowsGetScaledMedian ==
    weights.kind = "array" =>
        \A t \in DOMAIN weights.w, c \in DOMAIN ind_wave :
            IF Flagged(t)
            THEN (\E u \in DOMAIN PlainWeights(ind_wave[c]) :
                      ~IsNaN(PlainWeights(ind_wave[c])[u]))
                 => \E m \in MedianCandidates(PlainWeights(ind_wave[c])) :
                      /\ IsMedian(m, PlainWeights(ind_wave[c]))
                      /\ weights.w[t][c] =
                           Mul(c3k_weight, IF m = Zero THEN One ELSE m)
            ELSE weights.w[t][c] = BaseWeight(t, ind_wave[c])

\* A weight array with the default c3k_weight in which a flagged row holds,
\* at one wavelength, 0.1 times the median of two different non-flagged
\* weights, and at another 0.1 because the median there is zero.
C1_Witness ==
    /\ weights.kind = "array"
    /\ c3k_weight = Fin(1, 10)
    /\ \E t \in DOMAIN weights.w, c, e \in DOMAIN ind_wave :
        /\ Flagged(t)
        /\ \E u, v \in DOMAIN PlainWeights(ind_wave[c]) :
             /\ Lt(Zero, PlainWeights(ind_wave[c])[u])
             /\ Lt(PlainWeights(ind_wave[c])[u], PlainWeights(ind_wave[c])[v])
        /\ Lt(Zero, weights.w[t][c])
        /\ weights.w[t][c] # Fin(1, 10)
        /\ \A u \in DOMAIN PlainWeights(ind_wave[e]) :
             PlainWeights(ind_wave[e])[u] = Zero
        /\ weights.w[t][e] = Fin(1, 10)

\* C2: get_weights returns None exactly when the model has no uncertainties
\* or the unweighted flag is set; otherwise the weight of each non-flagged
\* row at each requested wavelength is (S/N)^2 in log flux and
\* (S/N)^2 / flux^2 in linear flux.
C2_NoneOrBaseWeights ==
    weights.kind # "notcalled" =>
        /\ weights.kind = "None" <=> ((~has_errors) \/ unweighted)
        /\ weights.kind = "array" =>
             \A t \in DOMAIN weights.w, c \in DOMAIN ind_wave :
                ~Flagged(t) =>
                    weights.w[t][c] =
                        IF logify_flux
                        THEN Sq(library_snr[RowOf(t)][ind_wave[c]])
                        ELSE Div(Sq(library_snr[RowOf(t)][ind_wave[c]]),
                                 Sq(library_spectra[RowOf(t)][ind_wave[c]]))

\* A weight array in linear flux in which a non-flagged row has a weight
\* that differs from its (S/N)^2.
C2_Witness ==
    /\ weights.kind = "array"
    /\ ~logify_flux
    /\ \E t \in DOMAIN weights.w, c \in DOMAIN ind_wave :
        /\ ~Flagged(t)
        /\ IsFinite(weights.w[t][c])
        /\ Lt(Zero, weights.w[t][c])
        /\ weights.w[t][c] # Sq(library_snr[RowOf(t)][ind_wave[c]])

\* C4 (as claimed): every entry of a weight array returned by get_weights is
\* non-negative.
C4_WeightsNonNegative ==
    weights.kind = "array" =>
        \A t \in DOMAIN weights.w, c \in DOMAIN ind_wave :
            /\ ~IsNaN(weights.w[t][c])
            /\ ~Lt(weights.w[t][c], Zero)

\* ---------------------------------------------------- claims on the loading
\* The S/N of entry (r, w) as the file gives it.
FileSnr(r, w) == Div(f.spectra[r][w], f.unc[r][w])
\* The flux entries of the file.
FileFluxes ==
    [e \in Rows \X Waves |-> f.spectra[e[1]][e[2]]]

\* C3: after load_training_data, every entry whose S/N (flux / uncertainty)
\* is below snr_threshold or not finite has a stored S/N of 0 and a stored
\* flux equal to the median of the library's flux (over its non-NaN entries);
\* every other entry keeps its flux and S/N; so every stored S/N is finite
\* and either 0 or at least snr_threshold.
C3_BadEntriesZeroed ==
    library_snr # <<>> =>
        \A r \in Rows, w \in Waves :
            /\ IF Lt(FileSnr(r, w), f.snr_threshold)
                  \/ FileSnr(r, w).k # "fin"
               THEN /\ library_snr[r][w] = Zero
                    /\ library_spectra[r][w] = bad_flux_value
                    /\ \/ IsMedian(bad_flux_value, FileFluxes)
                       \/ /\ \A e \in Rows \X Waves : IsNaN(FileFluxes[e])
                          /\ IsNaN(bad_flux_value)
               ELSE /\ library_snr[r][w] = FileSnr(r, w)
                    /\ library_spectra[r][w] = f.spectra[r][w]
            /\ library_snr[r][w].k = "fin"
            /\ \/ library_snr[r][w] = Zero
               \/ ~Lt(library_snr[r][w], f.snr_threshold)

\* A loaded library with an entry zeroed for a positive S/N below the
\* threshold, one zeroed for a non-finite S/N, and one kept with an S/N
\* equal to the threshold.
C3_Witness ==
    /\ library_snr # <<>>
    /\ \E r \in Rows, w \in Waves :
        /\ Lt(Zero, FileSnr(r, w))
        /\ Lt(FileSnr(r, w), f.snr_threshold)
        /\ library_snr[r][w] = Zero
        /\ library_spectra[r][w] # f.spectra[r][w]
    /\ \E r \in Rows, w \in Waves :
        /\ FileSnr(r, w).k = "inf"
        /\ library_snr[r][w] = Zero
    /\ \E r \in Rows, w \in Waves :
        /\ FileSnr(r, w) = f.snr_threshold
        /\ library_snr[r][w] = f.snr_threshold

\* ------------------------------------------------- claims on the selection
\* C5: after a selection by bounds, a row is included exactly when it was
\* included before and its label lies strictly between min and max for every
\* declared bound; a label equal to min or to max does not pass.
C5_SelectKeepsStrictlyWithin ==
    sel.called =>
        \A r \in Rows :
            library_mask[r] <=>
                /\ sel.mask[r]
                /\ \A name \in DOMAIN sel.bounds :
                     /\ sel.bounds[name][1] < library_labels[r][name]
                     /\ library_labels[r][name] < sel.bounds[name][2]

\* A selection with two bounds that excluded a row whose temperature equals
\* the minimum, a row whose temperature equals the maximum and a row that
\* passes the temperature bound but not the gravity bound, and kept a row.
C5_Witness ==
    /\ sel.called
    /\ DOMAIN sel.bounds = {"teff", "logg"}
    /\ \E r \in Rows :
        /\ sel.mask[r] /\ ~library_mask[r]
        /\ library_labels[r].teff = sel.bounds["teff"][1]
    /\ \E r \in Rows :
        /\ sel.mask[r] /\ ~library_mask[r]
        /\ library_labels[r].teff = 5
        /\ library_labels[r].logg = sel.bounds["logg"][1]
    /\ \E r \in Rows : library_mask[r]

\* ---------------------------------------- claims on the leave-one-out scripts
\* A train() call of the current iteration has been made.
AfterTrain == pc \in {"trained", "predicted", "hulled"}
\* An iteration is under way, its star left out.
MidIteration == pc \in {"left_out", "trained", "predicted", "hulled"}

\* C6: in every iteration of every leave-one-out script, the library row
\* whose labels are passed to get_star_spectrum is excluded from the training
\* set at that iteration's train() call, and every other row of the selected
\* training set is included in it.
C6_PredictedRowIsHeldOut ==
    AfterTrain =>
        /\ ~coeffs.mask[star]
        /\ \A r \in Rows : (mask0[r] /\ r # star) => coeffs.mask[r]

\* C7: in the scripts that toggle library_mask[j], the mask at the end of
\* every iteration and after the loop is the mask in force before the loop;
\* during an iteration only the bit of the star differs from it; and the rows
\* excluded before the loop are excluded at every train() call.
C7_MaskTogglingReversible ==
    (driver \in Toggling) =>
        /\ (pc \in {"loop", "done"}) => library_mask = mask0
        /\ MidIteration =>
              /\ library_mask[star] # mask0[star]
              /\ \A r \in Rows : r # star => library_mask[r] = mask0[r]
        /\ AfterTrain => \A r \in Rows : ~mask0[r] => ~coeffs.mask[r]
C7_Witness ==
    /\ driver \in Toggling
    /\ pc = "done"
    /\ Len(loo_indices) >= 2
    /\ \E r \in Rows : ~mask0[r]
    /\ coeffs.trained

\* C8: every prediction of the leave-one-out scripts is made with
\* coefficients fitted on the mask and the feature set in force at the
\* prediction, and nothing changes either between train() and the prediction.
C8_CoefficientsNeverStale ==
    /\ pc = "trained" =>
          /\ coeffs.trained
          /\ coeffs.mask = library_mask
          /\ coeffs.features = features
    /\ \A k \in DOMAIN predicted :
          predicted[k].set =>
              /\ predicted[k].coeffs.trained
              /\ predicted[k].coeffs.mask = predicted[k].mask
              /\ predicted[k].coeffs.features = predicted[k].features
C8_Witness ==
    /\ pc = "done"
    /\ \E k \in DOMAIN predicted :
          /\ k >= 1
          /\ predicted[k].set
          /\ predicted[k].mask # predicted[k - 1].mask

\* C9: in demo/loo_combined.py the hull test of a star is made against the
\* training set of that iteration's train() call, which excludes the star,
\* and the prediction of the star is stored whatever the test returns.
C9_HullAfterTrainPredictionKept ==
    (driver = "combined") =>
        /\ \A k \in DOMAIN inhull :
              inhull[k].set =>
                  /\ ~inhull[k].mask[loo_indices[k + 1]]
                  /\ predicted[k].set
                  /\ predicted[k].star = loo_indices[k + 1]
                  /\ inhull[k].mask = predicted[k].coeffs.mask
                  /\ inhull[k].mask = predicted[k].mask
        /\ pc = "done" =>
              \A k \in DOMAIN predicted : predicted[k].set /\ inhull[k].set
C9_Witness ==
    /\ driver = "combined"
    /\ pc = "done"
    /\ \E k \in DOMAIN inhull : inhull[k].set /\ ~inhull[k].value
    /\ \E k \in DOMAIN inhull : inhull[k].set /\ inhull[k].value

\* ------------------------------------------------------ claims on psi/utils.py
\* The values of a label of the dictionary, a scalar being one value.
ValuesOf(d, n) == d[n].vals
\* The labels of the dictionary have the same number of values.
Uniform(d) ==
    \A a, b \in DOMAIN d :
        d[a].list = d[b].list /\ Len(d[a].vals) = Len(d[b].vals)
\* The numbers of two sequences are equal, an int equalling the float of the
\* same value.
SameValues(xs, ys) ==
    /\ Len(xs) = Len(ys)
    /\ \A k \in DOMAIN xs : xs[k].v = ys[k].v

\* C10: for every dictionary d whose labels have the same number of values,
\* make_struct(**d) is a structured array with one field per key of d and as
\* many rows as a label has values (1 for scalars), and
\* dict_struct(make_struct(**d)) has the keys of d and, for every key, the
\* values d gives it.
C10_MakeStructDictStructInverse ==
    (struct # NoStruct /\ Uniform(label_dict)) =>
        /\ struct.kind = "array"
        /\ struct.names = DOMAIN label_dict
        /\ \A n \in DOMAIN label_dict :
              Len(struct.rows) = Len(ValuesOf(label_dict, n))
        /\ out # NoDict =>
              /\ DOMAIN out.d = DOMAIN label_dict
              /\ \A n \in DOMAIN label_dict :
                    SameValues(out.d[n], ValuesOf(label_dict, n))

\* ------------------------------------- claims on the loops of the scripts
\* The rows of the selected training set, as snapshotted before the loop: the
\* copy of training_indices, or the rows the count n_train counts.
SnapshotRows ==
    IF driver \in Toggling THEN loo_indices ELSE TrainingIndices(mask0)
\* The rows of the selected training set the fit of iteration k excluded.
HeldOut(k) == {r \in Rows : mask0[r] /\ ~predicted[k].coeffs.mask[r]}

\* C11: each loop makes one iteration per row of the snapshot taken before
\* it, and iteration k holds out the k-th row of the snapshot and no other:
\* every row is held out exactly once, none twice, none skipped.
C11_EachSnapshotRowHeldOutOnce ==
    /\ (driver # "none" /\ pc # "start") =>
          /\ i <= Len(SnapshotRows)
          /\ DOMAIN predicted = 0..(Len(SnapshotRows) - 1)
          /\ \A k \in DOMAIN predicted :
                predicted[k].set => HeldOut(k) = {SnapshotRows[k + 1]}
    /\ pc = "done" =>
          /\ i = Len(SnapshotRows)
          /\ \A k \in DOMAIN predicted : predicted[k].set

\* ------------------------------------------- claims on get_weights' effects
\* C12: a get_weights call leaves the stored S/N table, the labels, the
\* spectra and the inclusion mask as they were and the flux argument as it
\* was passed; a call with the arguments of the call before it returns equal
\* weights.
C12_GetWeightsReadOnly ==
    [][weights' # NotCalled =>
          /\ library_snr' = library_snr
          /\ library_labels' = library_labels
          /\ library_spectra' = library_spectra
          /\ library_mask' = library_mask
          /\ spec_arg' = TrainingFlux(ind_wave')
          /\ (prev'.weights # NotCalled
                /\ prev'.ind_wave = ind_wave' /\ prev'.spec = spec_arg')
             => weights' = prev'.weights]_vars
\* Two successive calls with the same arguments on a library with a c3k row
\* whose returned weight is not its base weight.
C12_Witness ==
    /\ weights.kind = "array"
    /\ prev.weights.kind = "array"
    /\ prev.ind_wave = ind_wave
    /\ prev.spec = spec_arg
    /\ prev.weights = weights
    /\ \E t \in DOMAIN weights.w, c \in DOMAIN ind_wave :
          /\ Flagged(t)
          /\ weights.w[t][c] # BaseWeight(t, ind_wave[c])
          /\ weights.w[t][c] # library_snr[RowOf(t)][ind_wave[c]]

\* --------------------------------------------------- claims on flatten_struct
\* C13: flatten_struct(s, use_labels) with use_labels all the field names of
\* s in record order equals flatten_struct(s), in shape and in content; and
\* for any use_labels the result holds the named labels, in the given order.
C13_FlattenDefaultEqualsNamed ==
    /\ (flat_default # NoArray /\ flat_named # NoArray /\ use_labels = keys)
          => /\ flat_named.shape = flat_default.shape
             /\ flat_named.data = flat_default.data
    /\ flat_named # NoArray =>
          /\ Len(flat_named.data) = Len(use_labels)
          /\ \A j \in DOMAIN use_labels :
                flat_named.data[j] =
                    [k \in DOMAIN struct.rows |-> struct.rows[k][use_labels[j]]]
====
